---- MODULE Spec2Model ----
(***************************************************************************)
(* MITMqtt: an intercepting MQTT 3.1.1 proxy (src/core/mqtt_handler.cpp).  *)
(*                                                                         *)
(* The module models                                                       *)
(*   - the packet codec (MQTTPacket::fromRawData, the PUBLISH encoder of   *)
(*     MQTTHandler::injectPacket),                                         *)
(*   - the capture store (MQTTHandler::storePacket),                       *)
(*   - the handler, its two listeners and the plain / TLS connection       *)
(*     pairs with their asynchronous completion handlers.                  *)
(*                                                                         *)
(* Three specifications share the variables:                               *)
(*   SpecCodec  applies the codec to inputs drawn from bounded sets,       *)
(*   SpecStore  applies storePacket more than 1000 times,                  *)
(*   Spec       is the handler with its connection pairs.                  *)
(***************************************************************************)
EXTENDS Integers, Sequences, FiniteSets, TLC

VARIABLES
  codec,           \* the codec call in progress: inputs, frame, decoded packet
  storedPackets_,  \* MQTTHandler::storedPackets_
  nStored,         \* number of storePacket calls made so far
  running_,        \* MQTTHandler::running_
  tlsEnabled_,     \* MQTTHandler::tlsEnabled_
  acceptorOpen,    \* acceptor_ is open
  acceptOps,       \* async_accept operations outstanding on acceptor_
  tlsAcceptorOpen, \* tlsAcceptor_ exists and is open
  tlsAcceptOps,    \* async_accept operations outstanding on tlsAcceptor_
  connections_,    \* MQTTHandler::connections_ (indices into pairs)
  tlsConnections_, \* MQTTHandler::tlsConnections_ (indices into pairs)
  pairs,           \* every MQTTConnection / MQTTTLSConnection constructed
  ioRunning,       \* io_thread_ is still inside ioc_.run()
  nReads,          \* chunks read so far, over all pairs
  nCalls,          \* control-surface calls made so far
  lastCall,        \* the last control-surface call, its arguments and report
  packetCallback_, \* MQTTHandler::packetCallback_ holds a function
  connectionCallback_, \* MQTTHandler::connectionCallback_ holds a function
  storedAtSet,     \* nStored when packetCallback_ was set
  nCallbacks,      \* invocations of packetCallback_ so far
  lastCallback,    \* the arguments of its last invocation
  certLoaded,      \* a setTLSCertificate call has loaded certificate and key
  aborted,         \* the process was aborted by a failed library check
  app,             \* the embedding Application: its packet list, and where
                   \* its UI thread and its I/O thread are inside a call
  captured         \* for every storePacket so far: the pair and direction it
                   \* came from and what the packet callback was given


(***************************************************************************)
(* Byte vectors.  std::vector<uint8_t> and std::string values are kept     *)
(* run-length encoded: a sequence of runs [b |-> byte, n |-> count] with   *)
(* n >= 1 and adjacent runs of different bytes.  Two vectors are equal iff *)
(* their encodings are equal, and a payload of 2 MiB is one run.           *)
(***************************************************************************)
Run(b, n) == [b |-> b, n |-> n]

EmptyVec == <<>>

\* append n copies of byte b, merging with the last run
VecAppendRun(v, b, n) ==
  IF n = 0 THEN v
  ELSE IF v # <<>> /\ v[Len(v)].b = b
       THEN [v EXCEPT ![Len(v)] = Run(b, @.n + n)]
       ELSE Append(v, Run(b, n))

\* std::vector::push_back
push_back(v, b) == VecAppendRun(v, b, 1)

\* std::vector::insert(end, first, last)
RECURSIVE insert(_, _)
insert(v, w) ==
  IF w = <<>> THEN v
  ELSE insert(VecAppendRun(v, w[1].b, w[1].n), Tail(w))

\* std::vector::size / std::string::length
RECURSIVE size(_)
size(v) == IF v = <<>> THEN 0 ELSE v[1].n + size(Tail(v))

\* v[i], 0-based as in the source
RECURSIVE at(_, _)
at(v, i) == IF i < v[1].n THEN v[1].b ELSE at(Tail(v), i - v[1].n)

\* the bytes of v from 0-based offset k on
RECURSIVE VecDrop(_, _)
VecDrop(v, k) ==
  IF k = 0 \/ v = <<>> THEN v
  ELSE IF k >= v[1].n THEN VecDrop(Tail(v), k - v[1].n)
  ELSE <<Run(v[1].b, v[1].n - k)>> \o Tail(v)

\* the first k bytes of v
RECURSIVE VecTake(_, _)
VecTake(v, k) ==
  IF k = 0 \/ v = <<>> THEN <<>>
  ELSE IF k >= v[1].n THEN <<v[1]>> \o VecTake(Tail(v), k - v[1].n)
  ELSE <<Run(v[1].b, k)>>

\* std::string(&raw[offset], len)
substr(v, offset, len) == VecTake(VecDrop(v, offset), len)

\* a vector from a plain sequence of bytes
RECURSIVE Vec(_)
Vec(s) == IF s = <<>> THEN <<>> ELSE insert(<<Run(s[1], 1)>>, Vec(Tail(s)))

(***************************************************************************)
(* Packet codec                                                            *)
(***************************************************************************)
CONNECT == 1
CONNACK == 2
PUBLISH == 3

\* MQTTPacket(): type(CONNECT), qos(0), retain(false), dup(false)
DefaultPacket ==
  [type |-> CONNECT, data |-> EmptyVec, topic |-> EmptyVec, payload |-> EmptyVec,
   qos |-> 0, retain |-> FALSE, dup |-> FALSE]

\* the do-while loop of fromRawData.  remainingLength and multiplier are
\* uint32_t; the loop leaves after at most four bytes, so multiplier <= 128^4
\* and remainingLength < 128^4: neither wraps.
RECURSIVE decodeRemainingLength(_, _, _, _)
decodeRemainingLength(raw, offset, remainingLength, multiplier) ==
  IF offset >= size(raw)
  THEN [malformed |-> TRUE, offset |-> offset, remainingLength |-> remainingLength,
        consumed |-> offset - 1]
  ELSE LET encodedByte == at(raw, offset)
           rl == remainingLength + (encodedByte % 128) * multiplier
           mul == multiplier * 128
       IN  IF mul > 128 * 128 * 128
           THEN [malformed |-> TRUE, offset |-> offset + 1, remainingLength |-> rl,
                 consumed |-> offset]
           ELSE IF (encodedByte \div 128) % 2 # 0
                THEN decodeRemainingLength(raw, offset + 1, rl, mul)
                ELSE [malformed |-> FALSE, offset |-> offset + 1,
                      remainingLength |-> rl, consumed |-> offset]

\* the PUBLISH branch of fromRawData, after the Remaining Length
parsePublish(packet, raw, off0) ==
  IF off0 + 2 <= size(raw)
  THEN LET topicLen == (at(raw, off0) * 256 + at(raw, off0 + 1)) % 65536
           off1 == off0 + 2
       IN  IF off1 + topicLen <= size(raw)
           THEN LET off2 == off1 + topicLen
                    off3 == IF packet.qos > 0 /\ off2 + 2 <= size(raw)
                            THEN off2 + 2 ELSE off2
                IN  [packet EXCEPT
                       !.topic = substr(raw, off1, topicLen),
                       !.payload = IF off3 < size(raw)
                                   THEN substr(raw, off3, size(raw) - off3)
                                   ELSE EmptyVec]
           ELSE packet
  ELSE packet

\* the variant of fromRawData that takes qos from bit 1 alone
fromRawDataOneBitQos(raw) ==
  IF raw = EmptyVec THEN DefaultPacket
  ELSE LET firstByte == at(raw, 0)
           packet == [DefaultPacket EXCEPT
                        !.data = raw,
                        !.type = (firstByte \div 16) % 16,
                        !.dup = (firstByte \div 8) % 2 # 0,
                        !.qos = (firstByte \div 2) % 2,
                        !.retain = firstByte % 2 # 0]
       IN  IF packet.type = PUBLISH /\ size(raw) > 2
           THEN LET d == decodeRemainingLength(raw, 1, 0, 1)
                IN  IF d.malformed THEN packet
                    ELSE parsePublish(packet, raw, d.offset)
           ELSE packet

fromRawData(raw) ==
  IF raw = EmptyVec THEN DefaultPacket
  ELSE LET firstByte == at(raw, 0)
           packet == [DefaultPacket EXCEPT
                        !.data = raw,
                        !.type = (firstByte \div 16) % 16,
                        !.dup = (firstByte \div 8) % 2 # 0,
                        !.qos = (firstByte \div 2) % 4,
                        !.retain = firstByte % 2 # 0]
       IN  IF packet.type = PUBLISH /\ size(raw) > 2
           THEN LET d == decodeRemainingLength(raw, 1, 0, 1)
                IN  IF d.malformed THEN packet
                    ELSE parsePublish(packet, raw, d.offset)
           ELSE packet

\* fromRawData forms &raw[offset] for the topic with offset = raw.size(): the
\* PUBLISH buffer ends right after a topic length of zero.  operator[] is
\* undefined there; a build with checked containers aborts the process, any
\* other build reads nothing and goes on.
readsPastEnd(raw) ==
  /\ raw # EmptyVec
  /\ (at(raw, 0) \div 16) % 16 = PUBLISH
  /\ size(raw) > 2
  /\ LET d == decodeRemainingLength(raw, 1, 0, 1)
     IN  /\ ~d.malformed
         /\ d.offset + 2 = size(raw)
         /\ at(raw, d.offset) = 0
         /\ at(raw, d.offset + 1) = 0

toRawData(packet) == packet.data

\* the do-while loop of injectPacket: size_t remainingLength
RECURSIVE encodeRemainingLength(_, _)
encodeRemainingLength(packet, remainingLength) ==
  LET rest == remainingLength \div 128
      encodedByte == IF rest > 0 THEN (remainingLength % 128) + 128
                     ELSE remainingLength % 128
      packet1 == push_back(packet, encodedByte)
  IN  IF rest > 0 THEN encodeRemainingLength(packet1, rest) ELSE packet1

\* the frame injectPacket builds for (topic, payload)
injectFrame(topic, payload) ==
  LET topicLen == size(topic) % 65536
      remainingLength == 2 + topicLen + size(payload)
      p1 == push_back(EmptyVec, 48)
      p2 == encodeRemainingLength(p1, remainingLength)
      p3 == push_back(p2, (topicLen \div 256) % 256)
      p4 == push_back(p3, topicLen % 256)
      p5 == insert(p4, topic)
  IN  insert(p5, payload)

(***************************************************************************)
(* Capture store                                                           *)
(***************************************************************************)
MaxStoredPackets == 1000

\* the variant of storePacket that evicts the newest entry
storePacketEraseBack(stored, packet) ==
  LET pushed == Append(stored, packet)
  IN  IF Len(pushed) > MaxStoredPackets
      THEN SubSeq(pushed, 1, Len(pushed) - 1) ELSE pushed

\* the variant of storePacket that never evicts
storePacketNoErase(stored, packet) == Append(stored, packet)

\* MQTTHandler::storePacket: push_back, then erase(begin()) above 1000
storePacket(stored, packet) ==
  LET pushed == Append(stored, packet)
  IN  IF Len(pushed) > MaxStoredPackets THEN Tail(pushed) ELSE pushed

(***************************************************************************)
(* Connection pairs                                                        *)
(*                                                                         *)
(* An asynchronous operation is a counter of outstanding operations.  An   *)
(* operation started on an open socket ("P") completes with data or with   *)
(* an error; closing the socket does not take back a completion that was   *)
(* already queued, so its handler may still run with success after the     *)
(* pair was stopped.  An operation started on a closed socket ("F") can    *)
(* only fail.  The completion and the handler run are one step.            *)
(***************************************************************************)
\* the environment delivers at most MaxEvents inputs in all: connections
\* accepted, chunks received and control-surface calls
MaxEvents == 5

\* chunks a client sends: a CONNECT and a qos-0 PUBLISH (topic "t")
ConnectChunk == Vec(<<16, 0>>)
PublishChunk == Vec(<<48, 3, 0, 1, 116>>)
ClientChunks == {ConnectChunk, PublishChunk}

\* chunks the broker sends: CONNACK
ConnackChunk == Vec(<<32, 2, 0, 0>>)
BrokerChunks == {ConnackChunk}

\* the arguments the operator injects with
InjectTopic == Vec(<<97, 47, 98>>)
InjectPayload == Vec(<<88>>)

\* MQTTConnection::MQTTConnection / MQTTTLSConnection::MQTTTLSConnection:
\* the accepted client socket is open, the broker socket is not
NewPair(kind) ==
  [kind |-> kind,
   connected_ |-> FALSE, brokerConnected_ |-> FALSE,
   clientOpen |-> TRUE, brokerOpen |-> FALSE,
   hs |-> 0,                     \* async_handshake outstanding
   handshaken |-> FALSE,         \* the TLS handshake has succeeded
   bconn |-> 0,                  \* async_connect outstanding
   creadP |-> 0, creadF |-> 0,   \* async_read_some on the client socket
   breadP |-> 0, breadF |-> 0,   \* async_read_some on the broker socket
   toBroker |-> <<>>,            \* async_write outstanding on the broker socket
   toClient |-> <<>>,            \* async_write outstanding on the client socket
   clientIn |-> <<>>,            \* chunks read from the client socket
   brokerIn |-> <<>>,            \* chunks read from the broker socket
   brokerOut |-> <<>>,           \* what was written on the broker socket
   clientOut |-> <<>>,           \* what was written on the client socket
   attempts |-> 0,               \* broker resolve/connect attempts started
   announced |-> 0,              \* connectionCallback_ invocations for this pair
   erred |-> FALSE,              \* a read or write on it completed with an error
   connectFailed |-> FALSE,      \* a broker resolve or connect of it failed
   stopped |-> FALSE]            \* stop() has closed the sockets

\* (data[0] >> 4) & 0x0F
packetType(data) == (at(data, 0) \div 16) % 16

\* socket close: every write still outstanding on it is cancelled
failAll(writes) == [i \in 1..Len(writes) |-> [writes[i] EXCEPT !.live = FALSE]]

\* the sockets of stop(): shutdown and close of both
closeSockets(c) ==
  [c EXCEPT !.connected_ = FALSE, !.brokerConnected_ = FALSE,
            !.clientOpen = FALSE, !.brokerOpen = FALSE, !.stopped = TRUE,
            !.toBroker = failAll(@), !.toClient = failAll(@)]

\* MQTTConnection::stop
stopPlain(c) == IF ~c.connected_ THEN c ELSE closeSockets(c)

\* MQTTTLSConnection::stop
stopTLS(c) == closeSockets(c)

stop(c) == IF c.kind = "plain" THEN stopPlain(c) ELSE stopTLS(c)

\* sendToBroker of either class: async_write of data on the broker socket.
\* The buffer handed to async_write refers to the caller's vector.
sendToBroker(c, src, data) ==
  IF ~c.brokerConnected_ THEN c
  ELSE [c EXCEPT !.toBroker =
          Append(@, [src |-> src, data |-> data, live |-> c.brokerOpen])]

\* sendToClient of either class
sendToClient(c, src, data) ==
  IF ~c.connected_ THEN c
  ELSE [c EXCEPT !.toClient =
          Append(@, [src |-> src, data |-> data, live |-> c.clientOpen])]

\* doReadFromClient of either class
doReadFromClient(c) ==
  IF ~c.connected_ THEN c
  ELSE IF c.clientOpen THEN [c EXCEPT !.creadP = @ + 1]
       ELSE [c EXCEPT !.creadF = @ + 1]

\* doReadFromBroker of either class
doReadFromBroker(c) ==
  IF ~c.brokerConnected_ THEN c
  ELSE IF c.brokerOpen THEN [c EXCEPT !.breadP = @ + 1]
       ELSE [c EXCEPT !.breadF = @ + 1]

\* MQTTConnection::start
startPlain(c) == doReadFromClient([c EXCEPT !.connected_ = TRUE])

\* the variant of MQTTTLSConnection::start that starts reading at once
startTLSPairReading(c) == [c EXCEPT !.hs = 1, !.creadP = 1]

\* MQTTTLSConnection::start: doHandshakeWithClient
startTLSPair(c) == [c EXCEPT !.hs = 1]

\* MQTTConnection::connectToBroker; ok says whether resolve and connect
\* succeed.  boost::asio::connect closes and reopens the socket it is given.
connectToBroker(c, ok) ==
  IF c.brokerConnected_ THEN c
  ELSE IF ok
       THEN doReadFromBroker([c EXCEPT !.attempts = @ + 1, !.brokerOpen = TRUE,
                                       !.brokerConnected_ = TRUE])
       ELSE stopPlain([c EXCEPT !.attempts = @ + 1, !.connectFailed = TRUE])

\* a read or write of pair c completed with an error code
failed(c) == [c EXCEPT !.erred = TRUE]

\* one completed read operation leaves the counters
takeClientRead(c, ok) ==
  IF ok \/ c.creadF = 0 THEN [c EXCEPT !.creadP = @ - 1]
  ELSE [c EXCEPT !.creadF = @ - 1]

takeBrokerRead(c, ok) ==
  IF ok \/ c.breadF = 0 THEN [c EXCEPT !.breadP = @ - 1]
  ELSE [c EXCEPT !.breadF = @ - 1]

\* the variant of plainClientData that connects on the first chunk of any type
plainClientDataAnyChunk(c, data, connectOk) ==
  LET c1 == [c EXCEPT !.clientIn = Append(@, data)]
      c2 == IF ~c1.brokerConnected_ THEN connectToBroker(c1, connectOk) ELSE c1
      c3 == IF c2.brokerConnected_ THEN sendToBroker(c2, "relay", data) ELSE c2
  IN  doReadFromClient(c3)

\* the completion lambda of MQTTConnection::doReadFromClient, on success
plainClientData(c, data, connectOk) ==
  LET c1 == [c EXCEPT !.clientIn = Append(@, data)]
      c2 == IF ~c1.brokerConnected_ /\ packetType(data) = CONNECT
            THEN connectToBroker(c1, connectOk) ELSE c1
      c3 == IF c2.brokerConnected_ THEN sendToBroker(c2, "relay", data) ELSE c2
  IN  doReadFromClient(c3)

\* the completion lambda of doReadFromBroker of either class, on success
brokerData(c, data) ==
  doReadFromBroker(sendToClient([c EXCEPT !.brokerIn = Append(@, data)],
                                "relay", data))

\* the completion lambda of MQTTTLSConnection::doReadFromClient, on success
tlsClientData(c, data) ==
  doReadFromClient(sendToBroker([c EXCEPT !.clientIn = Append(@, data)],
                                "relay", data))

\* the switch of MQTTConnection::handlePacket over (data[0] >> 4) & 0x0F
plainLabel(t) ==
  CASE t = 1 -> "CONNECT" [] t = 2 -> "CONNACK" [] t = 3 -> "PUBLISH"
    [] t = 4 -> "PUBACK" [] t = 8 -> "SUBSCRIBE" [] t = 9 -> "SUBACK"
    [] t = 10 -> "UNSUBSCRIBE" [] t = 11 -> "UNSUBACK" [] t = 12 -> "PINGREQ"
    [] t = 13 -> "PINGRESP" [] t = 14 -> "DISCONNECT"
    [] OTHER -> "OTHER (" \o ToString(t) \o ")"

\* the switch of MQTTTLSConnection::handlePacket over packet.type
tlsLabel(t) ==
  CASE t = 1 -> "CONNECT" [] t = 2 -> "CONNACK" [] t = 3 -> "PUBLISH"
    [] t = 4 -> "PUBACK" [] t = 5 -> "PUBREC" [] t = 6 -> "PUBREL"
    [] t = 7 -> "PUBCOMP" [] t = 8 -> "SUBSCRIBE" [] t = 9 -> "SUBACK"
    [] t = 10 -> "UNSUBSCRIBE" [] t = 11 -> "UNSUBACK" [] t = 12 -> "PINGREQ"
    [] t = 13 -> "PINGRESP" [] t = 14 -> "DISCONNECT"
    [] OTHER -> "OTHER (" \o ToString(t) \o ")"

\* no packet callback was invoked
NoCallback == [direction |-> "none", type |-> "none"]

\* the first two arguments handlePacket gives the packet callback
callbackArgs(kind, direction, data) ==
  [direction |-> direction,
   type |-> IF kind = "plain" THEN plainLabel(packetType(data))
            ELSE tlsLabel(fromRawData(data).type)]

\* the variant of handlePacket whose store puts the newest capture first
handlePacketNewestFirst(stored, data) == <<fromRawData(data)>> \o stored

\* handlePacket of either class: decode and store (the store is the handler's)
handlePacket(stored, data) == storePacket(stored, fromRawData(data))

(***************************************************************************)
(* Inputs of the codec and of the store                                    *)
(***************************************************************************)
MaxStrLen == 2
MaxStores == 1003

\* all byte strings over alphabet A of length at most k
RECURSIVE Strings(_, _)
Strings(A, k) ==
  IF k = 0 THEN {EmptyVec}
  ELSE LET shorter == Strings(A, k - 1)
       IN  shorter \cup {push_back(v, b) : v \in shorter, b \in A}

\* topics: short ones over {'a', '/'}, the longest a PUBLISH can carry, and
\* two that are longer than a 16-bit length can say
Topics ==
  Strings({97, 47}, MaxStrLen)
    \cup {<<Run(97, n)>> : n \in {65535, 65536, 65537}}

\* payloads: short ones over {'X', 0}, and runs that put the Remaining Length
\* on both sides of each of its 1/2/3/4-byte boundaries
Payloads ==
  Strings({88, 0}, MaxStrLen)
    \cup {<<Run(88, n)>> : n \in {125, 126, 16381, 16382, 2097149, 2097150,
                                  268435453}}

\* Remaining Length values around every boundary of the encoding
Lengths ==
  {0, 1, 2, 127, 128, 129, 16383, 16384, 16385, 2097151, 2097152, 2097153,
   268435454, 268435455}

\* the n-th distinct chunk fed to the store: PUBLISH, topic "t", payload the
\* two bytes of n
StoreChunk(n) == Vec(<<48, 5, 0, 1, 116, (n \div 256) % 256, n % 256>>)

(***************************************************************************)
(* Initial state                                                           *)
(***************************************************************************)
handlerVars ==
  <<running_, tlsEnabled_, acceptorOpen, acceptOps, tlsAcceptorOpen,
    tlsAcceptOps, connections_, tlsConnections_, pairs, ioRunning, nReads,
    nCalls, lastCall, packetCallback_, connectionCallback_, storedAtSet,
    nCallbacks, lastCallback, captured, certLoaded, aborted, app>>

vars == <<codec, storedPackets_, nStored, handlerVars>>

CodecIdle ==
  [pc |-> "idle", topic |-> EmptyVec, payload |-> EmptyVec, frame |-> EmptyVec,
   qos |-> 0, packet |-> DefaultPacket, n |-> 0, lenBytes |-> EmptyVec,
   lenDecoded |-> decodeRemainingLength(EmptyVec, 1, 0, 1)]

\* the Application before any UI event: an empty packet list, no packet
\* selected, both threads outside every call
AppIdle ==
  [capturedPackets |-> <<>>, selected_packet |-> -1, uiPc |-> "idle",
   ioPc |-> "idle", ioPair |-> 0, ioChunk |-> EmptyVec, connectionsSeen |-> <<>>]

Init ==
  /\ codec = CodecIdle
  /\ storedPackets_ = <<>>
  /\ nStored = 0
  /\ running_ = FALSE
  /\ tlsEnabled_ = FALSE
  /\ acceptorOpen = FALSE
  /\ acceptOps = 0
  /\ tlsAcceptorOpen = FALSE
  /\ tlsAcceptOps = 0
  /\ connections_ = <<>>
  /\ tlsConnections_ = <<>>
  /\ pairs = <<>>
  /\ ioRunning = TRUE
  /\ nReads = 0
  /\ nCalls = 0
  /\ lastCall = [op |-> "none"]
  /\ packetCallback_ = FALSE
  /\ connectionCallback_ = FALSE
  /\ storedAtSet = 0
  /\ nCallbacks = 0
  /\ lastCallback = [direction |-> "none", type |-> "none"]
  /\ captured = <<>>
  /\ certLoaded = FALSE
  /\ aborted = FALSE
  /\ app = AppIdle

(***************************************************************************)
(* SpecCodec: the codec applied to bounded inputs                          *)
(***************************************************************************)
\* injectPacket(topic, payload, _) builds its frame
CodecInject(topic, payload) ==
  /\ codec' = [CodecIdle EXCEPT !.pc = "encoded", !.topic = topic,
                                !.payload = payload,
                                !.frame = injectFrame(topic, payload)]
  /\ UNCHANGED <<storedPackets_, nStored, handlerVars>>

\* fromRawData applied to the frame just built
CodecDecode ==
  /\ codec.pc = "encoded"
  /\ \/ codec' = [codec EXCEPT !.pc = "decoded",
                                !.packet = fromRawData(codec.frame)]
     \/ /\ readsPastEnd(codec.frame)
        /\ codec' = [codec EXCEPT !.pc = "aborted"]
  /\ UNCHANGED <<storedPackets_, nStored, handlerVars>>

\* the packet identifier of the PUBLISH buffers with qos > 0
PacketId == Vec(<<0, 7>>)

\* a PUBLISH buffer as a peer sends it: flags for qos, Remaining Length,
\* topic length, topic, packet identifier when qos > 0, payload
PublishBuffer(qos, topic, payload) ==
  LET id == IF qos > 0 THEN PacketId ELSE EmptyVec
      n == 2 + size(topic) + size(id) + size(payload)
      lenField == Vec(<<(size(topic) \div 256) % 256, size(topic) % 256>>)
      h1 == push_back(EmptyVec, 48 + 2 * qos)
      h2 == encodeRemainingLength(h1, n)
  IN  insert(insert(insert(insert(h2, lenField), topic), id), payload)

\* fromRawData applied to a PUBLISH buffer read from a socket
CodecPublish(qos, topic, payload) ==
  LET raw == PublishBuffer(qos, topic, payload)
      read == [CodecIdle EXCEPT !.topic = topic, !.payload = payload,
                                !.qos = qos, !.frame = raw]
  IN  /\ \/ codec' = [read EXCEPT !.pc = "publish", !.packet = fromRawData(raw)]
         \/ /\ readsPastEnd(raw)
            /\ codec' = [read EXCEPT !.pc = "publishAborted"]
      /\ UNCHANGED <<storedPackets_, nStored, handlerVars>>

\* the encoder loop applied to n, and the decoder loop applied to a PUBLISH
\* header byte followed by the bytes the encoder gave
CodecLength(n) ==
  LET bytes == encodeRemainingLength(EmptyVec, n)
  IN  /\ codec' = [CodecIdle EXCEPT
                     !.pc = "length", !.n = n, !.lenBytes = bytes,
                     !.lenDecoded =
                        decodeRemainingLength(insert(Vec(<<48>>), bytes), 1, 0, 1)]
      /\ UNCHANGED <<storedPackets_, nStored, handlerVars>>

\* buffers for the fixed header: the empty one, and every first byte followed
\* by nothing, by one byte, by a short PUBLISH body or by a body that ends
\* after a topic length of zero
HeaderRests == {EmptyVec, Vec(<<0>>), Vec(<<3, 0, 1, 116>>), Vec(<<2, 0, 0>>)}

HeaderBuffers ==
  {EmptyVec} \cup {insert(Vec(<<b>>), rest) : b \in 0..255, rest \in HeaderRests}

\* fromRawData applied to a buffer of any first byte
CodecHeader(raw) ==
  /\ \/ codec' = [CodecIdle EXCEPT !.pc = "header", !.frame = raw,
                                    !.packet = fromRawData(raw)]
     \/ /\ readsPastEnd(raw)
        /\ codec' = [CodecIdle EXCEPT !.pc = "headerAborted", !.frame = raw]
  /\ UNCHANGED <<storedPackets_, nStored, handlerVars>>

NextCodec ==
  \/ \E topic \in Topics, payload \in Payloads : CodecInject(topic, payload)
  \/ CodecDecode
  \/ \E qos \in 0..1, topic \in Topics, payload \in Payloads :
       CodecPublish(qos, topic, payload)
  \/ \E n \in Lengths : CodecLength(n)

SpecCodec == Init /\ [][NextCodec]_vars

(***************************************************************************)
(* SpecHeader: the decoder applied to every first byte                     *)
(***************************************************************************)
NextHeader == \E raw \in HeaderBuffers : CodecHeader(raw)

SpecHeader == Init /\ [][NextHeader]_vars

(***************************************************************************)
(* SpecStore: storePacket called more than 1000 times                      *)
(***************************************************************************)
\* one relay loop hands its next chunk to the store
StoreNext ==
  /\ nStored < MaxStores
  /\ storedPackets_' = storePacket(storedPackets_, fromRawData(StoreChunk(nStored)))
  /\ nStored' = nStored + 1
  /\ UNCHANGED <<codec, handlerVars>>

NextStore == StoreNext

SpecStore == Init /\ [][NextStore]_vars

(***************************************************************************)
(* Spec: the handler, its listeners and the connection pairs               *)
(***************************************************************************)
codecVars == <<codec>>
storeVars == <<storedPackets_, nStored>>
listenVars == <<running_, tlsEnabled_, acceptorOpen, acceptOps, tlsAcceptorOpen,
                tlsAcceptOps>>
callVars == <<nCalls, lastCall>>
setVars == <<packetCallback_, connectionCallback_, storedAtSet, certLoaded>>
sinkVars == <<nCallbacks, lastCallback, captured>>

\* inputs the environment has delivered so far
events == Len(pairs) + nReads + nCalls

\* the pairs registered in connections_
Registered(ids) == {ids[i] : i \in 1..Len(ids)}

\* where a start() or startTLS() call throws: at make_address, at bind or
\* listen, or nowhere
StartFailures == {"none", "address", "bind"}

\* MQTTHandler::start: make_address, open, bind, listen, running_ = true,
\* doAccept.  open() throws on an acceptor that is already open; whatever
\* throws is rethrown to the caller, and nothing that was done is undone.
Start(failAt) ==
  /\ events < MaxEvents
  /\ ~aborted
  /\ LET opened == failAt # "address" /\ ~acceptorOpen
         started == opened /\ failAt = "none"
     IN  /\ acceptorOpen' = (acceptorOpen \/ opened)
         /\ running_' = (running_ \/ started)
         /\ acceptOps' = IF started THEN acceptOps + 1 ELSE acceptOps
         /\ lastCall' = [op |-> "start",
                         report |-> IF started THEN "started" ELSE "failed"]
  /\ nCalls' = nCalls + 1
  /\ UNCHANGED <<codecVars, app, aborted, storeVars, sinkVars, setVars, tlsEnabled_,
                 tlsAcceptorOpen, tlsAcceptOps, connections_, tlsConnections_,
                 pairs, ioRunning, nReads>>

\* MQTTHandler::startTLS: make_address, a fresh tlsAcceptor_, open, bind,
\* listen, tlsEnabled_ = true, doAcceptTLS.  The certificate is not looked at.
\* Operations of a replaced acceptor stay outstanding until their handler runs.
StartTLS(failAt) ==
  /\ events < MaxEvents
  /\ ~aborted
  /\ LET opened == failAt # "address"
         started == failAt = "none"
     IN  /\ tlsAcceptorOpen' = (tlsAcceptorOpen \/ opened)
         /\ tlsEnabled_' = (tlsEnabled_ \/ started)
         /\ tlsAcceptOps' = IF started THEN tlsAcceptOps + 1 ELSE tlsAcceptOps
         /\ lastCall' = [op |-> "startTLS",
                         report |-> IF started THEN "started" ELSE "failed"]
  /\ nCalls' = nCalls + 1
  /\ UNCHANGED <<codecVars, app, aborted, storeVars, sinkVars, setVars, running_, acceptorOpen,
                 acceptOps, connections_, tlsConnections_, pairs, ioRunning,
                 nReads>>

\* MQTTHandler::setTLSCertificate: loaded says whether both PEM files load
SetTLSCertificate(loaded) ==
  /\ events < MaxEvents
  /\ ~aborted
  /\ certLoaded' = (certLoaded \/ loaded)
  /\ nCalls' = nCalls + 1
  /\ lastCall' = [op |-> "setTLSCertificate",
                  report |-> IF loaded THEN "loaded" ELSE "failed"]
  /\ UNCHANGED <<codecVars, app, aborted, storeVars, sinkVars, listenVars, connections_,
                 tlsConnections_, pairs, ioRunning, nReads, packetCallback_,
                 connectionCallback_, storedAtSet>>

\* MQTTHandler::stop (a call with running_ false returns at once)
Stop ==
  /\ events < MaxEvents
  /\ ~aborted
  /\ running_
  /\ running_' = FALSE
  /\ acceptorOpen' = FALSE
  /\ pairs' = [i \in 1..Len(pairs) |->
                 IF i \in Registered(connections_) THEN stopPlain(pairs[i])
                 ELSE pairs[i]]
  /\ connections_' = <<>>
  /\ nCalls' = nCalls + 1
  /\ lastCall' = [op |-> "stop"]
  /\ UNCHANGED <<codecVars, app, aborted, storeVars, sinkVars, setVars, tlsEnabled_, acceptOps, tlsAcceptorOpen,
                 tlsAcceptOps, tlsConnections_, ioRunning, nReads>>

\* MQTTHandler::setPacketCallback, called once with a function
SetPacketCallback ==
  /\ events < MaxEvents
  /\ ~aborted
  /\ ~packetCallback_
  /\ packetCallback_' = TRUE
  /\ storedAtSet' = nStored
  /\ nCalls' = nCalls + 1
  /\ lastCall' = [op |-> "setPacketCallback"]
  /\ UNCHANGED <<codecVars, app, aborted, storeVars, sinkVars, listenVars, connections_,
                 tlsConnections_, pairs, ioRunning, nReads, connectionCallback_,
                 certLoaded>>

\* MQTTHandler::setConnectionCallback, called once with a function
SetConnectionCallback ==
  /\ events < MaxEvents
  /\ ~aborted
  /\ ~connectionCallback_
  /\ connectionCallback_' = TRUE
  /\ nCalls' = nCalls + 1
  /\ lastCall' = [op |-> "setConnectionCallback"]
  /\ UNCHANGED <<codecVars, app, aborted, storeVars, sinkVars, listenVars, connections_,
                 tlsConnections_, pairs, ioRunning, nReads, packetCallback_,
                 storedAtSet, certLoaded>>

\* the pair injectPacket sends to: tlsConnections_[0], else connections_[0]
injectTarget ==
  IF tlsConnections_ # <<>> THEN tlsConnections_[1]
  ELSE IF connections_ # <<>> THEN connections_[1] ELSE 0

\* the variant of injectPacket that hands its frame to handlePacket as well
InjectPacketCaptured(topic, payload, toClient) ==
  /\ events < MaxEvents
  /\ ~aborted
  /\ LET packet == injectFrame(topic, payload)
         t == injectTarget
     IN  /\ pairs' = IF t = 0 THEN pairs
                     ELSE [pairs EXCEPT ![t] =
                             IF toClient THEN sendToClient(@, "inject", packet)
                             ELSE sendToBroker(@, "inject", packet)]
         /\ storedPackets_' = handlePacket(storedPackets_, packet)
  /\ nStored' = nStored + 1
  /\ nCalls' = nCalls + 1
  /\ lastCall' = [op |-> "inject", toClient |-> toClient,
                   report |-> IF injectTarget = 0 THEN "diagnostic" ELSE "success"]
  /\ UNCHANGED <<codecVars, app, aborted, sinkVars, setVars, listenVars, connections_,
                 tlsConnections_, ioRunning, nReads>>

\* MQTTHandler::injectPacket(topic, payload, toClient)
InjectPacket(topic, payload, toClient) ==
  /\ events < MaxEvents
  /\ ~aborted
  /\ LET packet == injectFrame(topic, payload)
         t == injectTarget
     IN  pairs' = IF t = 0 THEN pairs
                  ELSE [pairs EXCEPT ![t] =
                          IF toClient THEN sendToClient(@, "inject", packet)
                          ELSE sendToBroker(@, "inject", packet)]
  /\ nCalls' = nCalls + 1
  /\ lastCall' = [op |-> "inject", toClient |-> toClient,
                   report |-> IF injectTarget = 0 THEN "diagnostic" ELSE "success"]
  /\ UNCHANGED <<codecVars, app, aborted, storeVars, sinkVars, setVars, listenVars, connections_, tlsConnections_,
                 ioRunning, nReads>>

\* the variant of replayPacket that takes packetIndex as counting from one
ReplayPacketFromOne(packetIndex) ==
  /\ events < MaxEvents
  /\ ~aborted
  /\ pairs' =
       IF packetIndex < 1 \/ packetIndex > Len(storedPackets_) THEN pairs
       ELSE IF connections_ = <<>> THEN pairs
       ELSE [pairs EXCEPT ![connections_[1]] =
               sendToClient(@, "replay", toRawData(storedPackets_[packetIndex]))]
  /\ nCalls' = nCalls + 1
  /\ lastCall' = [op |-> "replay", index |-> packetIndex,
                   report |-> IF \/ packetIndex < 1
                                 \/ packetIndex > Len(storedPackets_)
                                 \/ connections_ = <<>>
                              THEN "diagnostic" ELSE "success"]
  /\ UNCHANGED <<codecVars, app, aborted, storeVars, sinkVars, setVars, listenVars,
                 connections_, tlsConnections_, ioRunning, nReads>>

\* MQTTHandler::replayPacket(packetIndex)
ReplayPacket(packetIndex) ==
  /\ events < MaxEvents
  /\ ~aborted
  /\ pairs' =
       IF packetIndex < 0 \/ packetIndex >= Len(storedPackets_) THEN pairs
       ELSE IF connections_ = <<>> THEN pairs
       ELSE [pairs EXCEPT ![connections_[1]] =
               sendToClient(@, "replay", toRawData(storedPackets_[packetIndex + 1]))]
  /\ nCalls' = nCalls + 1
  /\ lastCall' = [op |-> "replay", index |-> packetIndex,
                   report |-> IF \/ packetIndex < 0
                                 \/ packetIndex >= Len(storedPackets_)
                                 \/ connections_ = <<>>
                              THEN "diagnostic" ELSE "success"]
  /\ UNCHANGED <<codecVars, app, aborted, storeVars, sinkVars, setVars, listenVars, connections_, tlsConnections_,
                 ioRunning, nReads>>

\* the completion lambda of doAccept
Accept ==
  /\ ioRunning
  /\ acceptOps > 0
  /\ \/ \* a socket was accepted: handleConnection, then doAccept if running_
        /\ events < MaxEvents
        /\ pairs' = Append(pairs, startPlain(
                       [NewPair("plain") EXCEPT
                          !.announced = IF connectionCallback_ THEN 1 ELSE 0]))
        /\ connections_' = Append(connections_, Len(pairs) + 1)
        /\ acceptOps' = IF running_ THEN acceptOps ELSE acceptOps - 1
        /\ UNCHANGED ioRunning
     \/ \* a socket was accepted whose peer is already gone: remote_endpoint()
        \* throws out of the handler and out of ioc_.run()
        /\ acceptOps' = acceptOps - 1
        /\ ioRunning' = FALSE
        /\ UNCHANGED <<pairs, connections_>>
     \/ \* the accept failed or was cancelled
        /\ acceptOps' = IF running_ THEN acceptOps ELSE acceptOps - 1
        /\ UNCHANGED <<pairs, connections_, ioRunning>>
  /\ UNCHANGED <<codecVars, app, aborted, storeVars, sinkVars, setVars, running_, tlsEnabled_, acceptorOpen,
                 tlsAcceptorOpen, tlsAcceptOps, tlsConnections_, nReads, callVars>>

\* the completion lambda of doAcceptTLS
AcceptTLS ==
  /\ ioRunning
  /\ tlsAcceptOps > 0
  /\ LET rearmed == IF running_ /\ tlsEnabled_ THEN tlsAcceptOps
                    ELSE tlsAcceptOps - 1
     IN  \/ /\ events < MaxEvents
            /\ pairs' = Append(pairs, startTLSPair(NewPair("tls")))
            /\ tlsConnections_' = Append(tlsConnections_, Len(pairs) + 1)
            /\ tlsAcceptOps' = rearmed
            /\ UNCHANGED ioRunning
         \/ /\ tlsAcceptOps' = tlsAcceptOps - 1
            /\ ioRunning' = FALSE
            /\ UNCHANGED <<pairs, tlsConnections_>>
         \/ /\ tlsAcceptOps' = rearmed
            /\ UNCHANGED <<pairs, tlsConnections_, ioRunning>>
  /\ UNCHANGED <<codecVars, app, aborted, storeVars, sinkVars, setVars, running_, tlsEnabled_, acceptorOpen,
                 acceptOps, tlsAcceptorOpen, connections_, nReads, callVars>>

readFrame ==
  <<codecVars, app, listenVars, connections_, tlsConnections_, callVars, setVars>>

pairFrame == <<readFrame, aborted>>

\* the variant of handlePacket's tail that gives the sink PUBLISH chunks only
chunkStoredPublishOnly(p, direction, data) ==
  /\ events < MaxEvents
  /\ ~aborted
  /\ storedPackets_' = handlePacket(storedPackets_, data)
  /\ nStored' = nStored + 1
  /\ nReads' = nReads + 1
  /\ IF packetCallback_ /\ packetType(data) = PUBLISH
     THEN /\ nCallbacks' = nCallbacks + 1
          /\ lastCallback' = callbackArgs(pairs[p].kind, direction, data)
          /\ captured' = Append(captured, [pair |-> p, direction |-> direction,
                                           sink |-> lastCallback'])
     ELSE /\ UNCHANGED <<nCallbacks, lastCallback>>
          /\ captured' = Append(captured, [pair |-> p, direction |-> direction,
                                           sink |-> NoCallback])

\* a chunk read by pair p was handed to handlePacket
chunkStored(p, direction, data) ==
  /\ events < MaxEvents
  /\ ~aborted
  /\ storedPackets_' = handlePacket(storedPackets_, data)
  /\ nStored' = nStored + 1
  /\ nReads' = nReads + 1
  /\ IF packetCallback_
     THEN /\ nCallbacks' = nCallbacks + 1
          /\ lastCallback' = callbackArgs(pairs[p].kind, direction, data)
          /\ captured' = Append(captured, [pair |-> p, direction |-> direction,
                                           sink |-> lastCallback'])
     ELSE /\ UNCHANGED <<nCallbacks, lastCallback>>
          /\ captured' = Append(captured, [pair |-> p, direction |-> direction,
                                           sink |-> NoCallback])

\* a read completion of pair p that the decoder aborts: the chunk was taken
\* from the socket, nothing was stored, sent or armed
decodeAborts(data) ==
  /\ events < MaxEvents
  /\ readsPastEnd(data)
  /\ aborted' = TRUE
  /\ ioRunning' = FALSE
  /\ nReads' = nReads + 1
  /\ UNCHANGED <<storeVars, sinkVars>>

\* the completion lambda of MQTTConnection::doReadFromClient
PlainClientRead(p, chunks) ==
  /\ ioRunning
  /\ pairs[p].kind = "plain"
  /\ pairs[p].creadP + pairs[p].creadF > 0
  /\ \/ /\ pairs' = [pairs EXCEPT ![p] = stopPlain(failed(takeClientRead(@, FALSE)))]
        /\ UNCHANGED <<storeVars, sinkVars, nReads, ioRunning, aborted>>
     \/ \E data \in chunks, connectOk \in BOOLEAN :
          /\ pairs[p].creadP > 0
          /\ chunkStored(p, "ClientToBroker", data)
          /\ pairs' = [pairs EXCEPT ![p] =
                         plainClientData(takeClientRead(@, TRUE), data, connectOk)]
          /\ UNCHANGED <<ioRunning, aborted>>
     \/ \E data \in chunks :
          /\ pairs[p].creadP > 0
          /\ decodeAborts(data)
          /\ pairs' = [pairs EXCEPT ![p] =
                         [takeClientRead(@, TRUE) EXCEPT !.clientIn = Append(@, data)]]
  /\ UNCHANGED readFrame

\* the completion lambda of MQTTConnection::doReadFromBroker
PlainBrokerRead(p, chunks) ==
  /\ ioRunning
  /\ pairs[p].kind = "plain"
  /\ pairs[p].breadP + pairs[p].breadF > 0
  /\ \/ /\ pairs' = [pairs EXCEPT ![p] = stopPlain(failed(takeBrokerRead(@, FALSE)))]
        /\ UNCHANGED <<storeVars, sinkVars, nReads, ioRunning, aborted>>
     \/ \E data \in chunks :
          /\ pairs[p].breadP > 0
          /\ chunkStored(p, "BrokerToClient", data)
          /\ pairs' = [pairs EXCEPT ![p] = brokerData(takeBrokerRead(@, TRUE), data)]
          /\ UNCHANGED <<ioRunning, aborted>>
     \/ \E data \in chunks :
          /\ pairs[p].breadP > 0
          /\ decodeAborts(data)
          /\ pairs' = [pairs EXCEPT ![p] =
                         [takeBrokerRead(@, TRUE) EXCEPT !.brokerIn = Append(@, data)]]
  /\ UNCHANGED readFrame

\* the completion lambda of doHandshakeWithClient, with doConnectToBroker:
\* resolver.resolve throws on failure, and nothing on the way catches it.
\* A server context without certificate and key completes no handshake.
TLSHandshake(p) ==
  /\ ioRunning
  /\ pairs[p].kind = "tls"
  /\ pairs[p].hs > 0
  /\ \/ /\ certLoaded
        /\ pairs' = [pairs EXCEPT ![p] =
                       [@ EXCEPT !.hs = 0, !.handshaken = TRUE, !.connected_ = TRUE,
                                 !.attempts = @ + 1, !.bconn = 1]]
        /\ UNCHANGED ioRunning
     \/ /\ certLoaded
        /\ pairs' = [pairs EXCEPT ![p] =
                       [@ EXCEPT !.hs = 0, !.handshaken = TRUE, !.connected_ = TRUE,
                                 !.attempts = @ + 1, !.connectFailed = TRUE]]
        /\ ioRunning' = FALSE
     \/ /\ pairs' = [pairs EXCEPT ![p] = stopTLS([@ EXCEPT !.hs = 0])]
        /\ UNCHANGED ioRunning
  /\ UNCHANGED <<pairFrame, storeVars, sinkVars, nReads>>

\* the completion lambda of doConnectToBroker
TLSConnect(p) ==
  /\ ioRunning
  /\ pairs[p].kind = "tls"
  /\ pairs[p].bconn > 0
  /\ \/ pairs' = [pairs EXCEPT ![p] =
                    doReadFromBroker(doReadFromClient(
                      [@ EXCEPT !.bconn = 0, !.brokerConnected_ = TRUE,
                                !.brokerOpen = ~pairs[p].stopped]))]
     \/ pairs' = [pairs EXCEPT ![p] =
                    stopTLS([@ EXCEPT !.bconn = 0, !.connectFailed = TRUE])]
  /\ UNCHANGED <<pairFrame, storeVars, sinkVars, nReads, ioRunning>>

\* the completion lambda of MQTTTLSConnection::doReadFromClient
TLSClientRead(p, chunks) ==
  /\ ioRunning
  /\ pairs[p].kind = "tls"
  /\ pairs[p].creadP + pairs[p].creadF > 0
  /\ \/ /\ pairs' = [pairs EXCEPT ![p] = stopTLS(failed(takeClientRead(@, FALSE)))]
        /\ UNCHANGED <<storeVars, sinkVars, nReads, ioRunning, aborted>>
     \/ \E data \in chunks :
          /\ pairs[p].creadP > 0
          /\ chunkStored(p, "ClientToBroker", data)
          /\ pairs' = [pairs EXCEPT ![p] = tlsClientData(takeClientRead(@, TRUE), data)]
          /\ UNCHANGED <<ioRunning, aborted>>
     \/ \E data \in chunks :
          /\ pairs[p].creadP > 0
          /\ decodeAborts(data)
          /\ pairs' = [pairs EXCEPT ![p] =
                         [takeClientRead(@, TRUE) EXCEPT !.clientIn = Append(@, data)]]
  /\ UNCHANGED readFrame

\* the completion lambda of MQTTTLSConnection::doReadFromBroker
TLSBrokerRead(p, chunks) ==
  /\ ioRunning
  /\ pairs[p].kind = "tls"
  /\ pairs[p].breadP + pairs[p].breadF > 0
  /\ \/ /\ pairs' = [pairs EXCEPT ![p] = stopTLS(failed(takeBrokerRead(@, FALSE)))]
        /\ UNCHANGED <<storeVars, sinkVars, nReads, ioRunning, aborted>>
     \/ \E data \in chunks :
          /\ pairs[p].breadP > 0
          /\ chunkStored(p, "BrokerToClient", data)
          /\ pairs' = [pairs EXCEPT ![p] = brokerData(takeBrokerRead(@, TRUE), data)]
          /\ UNCHANGED <<ioRunning, aborted>>
     \/ \E data \in chunks :
          /\ pairs[p].breadP > 0
          /\ decodeAborts(data)
          /\ pairs' = [pairs EXCEPT ![p] =
                         [takeBrokerRead(@, TRUE) EXCEPT !.brokerIn = Append(@, data)]]
  /\ UNCHANGED readFrame

\* what a completed async_write left on the wire: the buffer it was given
\* pointed into a vector that is destroyed when the caller returns, so the
\* bytes sent are the caller's (intact) or whatever the memory held by then
written(w, intact) == [src |-> w.src, data |-> w.data, intact |-> intact]

\* the completion lambda of sendToBroker (either class)
BrokerWriteDone(p) ==
  /\ ioRunning
  /\ pairs[p].toBroker # <<>>
  /\ LET w == Head(pairs[p].toBroker)
         c == [pairs[p] EXCEPT !.toBroker = Tail(@)]
     IN  \/ \E intact \in BOOLEAN :
              /\ w.live
              /\ pairs' = [pairs EXCEPT ![p] =
                             [c EXCEPT !.brokerOut = Append(@, written(w, intact))]]
         \/ pairs' = [pairs EXCEPT ![p] = stop(failed(c))]
  /\ UNCHANGED <<pairFrame, storeVars, sinkVars, nReads, ioRunning>>

\* the completion lambda of sendToClient (either class)
ClientWriteDone(p) ==
  /\ ioRunning
  /\ pairs[p].toClient # <<>>
  /\ LET w == Head(pairs[p].toClient)
         c == [pairs[p] EXCEPT !.toClient = Tail(@)]
     IN  \/ \E intact \in BOOLEAN :
              /\ w.live
              /\ pairs' = [pairs EXCEPT ![p] =
                             [c EXCEPT !.clientOut = Append(@, written(w, intact))]]
         \/ pairs' = [pairs EXCEPT ![p] = stop(failed(c))]
  /\ UNCHANGED <<pairFrame, storeVars, sinkVars, nReads, ioRunning>>

Next ==
  \/ \E failAt \in StartFailures : Start(failAt)
  \/ \E failAt \in StartFailures : StartTLS(failAt)
  \/ \E loaded \in BOOLEAN : SetTLSCertificate(loaded)
  \/ Stop
  \/ SetPacketCallback
  \/ SetConnectionCallback
  \/ \E toClient \in BOOLEAN : InjectPacket(InjectTopic, InjectPayload, toClient)
  \/ \E packetIndex \in -1..Len(storedPackets_) : ReplayPacket(packetIndex)
  \/ Accept
  \/ AcceptTLS
  \/ \E p \in 1..Len(pairs) : PlainClientRead(p, ClientChunks)
  \/ \E p \in 1..Len(pairs) : PlainBrokerRead(p, BrokerChunks)
  \/ \E p \in 1..Len(pairs) : TLSHandshake(p)
  \/ \E p \in 1..Len(pairs) : TLSConnect(p)
  \/ \E p \in 1..Len(pairs) : TLSClientRead(p, ClientChunks)
  \/ \E p \in 1..Len(pairs) : TLSBrokerRead(p, BrokerChunks)
  \/ \E p \in 1..Len(pairs) : BrokerWriteDone(p)
  \/ \E p \in 1..Len(pairs) : ClientWriteDone(p)

Spec == Init /\ [][Next]_vars

(***************************************************************************)
(* SpecChunks: the relay loops reading chunks of any content               *)
(***************************************************************************)
\* async_read_some delivers whatever bytes the peer sent, cut wherever the
\* transport cut them: a Remaining Length of five bytes, a PUBLISH shorter
\* than its topic length says, the reserved types 0 and 15, two PINGREQ in
\* one chunk, the first half of a SUBSCRIBE, a PUBLISH that ends after a
\* topic length of zero
MalformedLengthChunk == Vec(<<48, 255, 255, 255, 255, 127>>)
TruncatedPublishChunk == Vec(<<48, 5, 0, 3, 97>>)
ReservedZeroChunk == Vec(<<0, 0>>)
ReservedFifteenChunk == Vec(<<240, 0>>)
TwoPacketChunk == Vec(<<192, 0, 192, 0>>)
PartialPacketChunk == Vec(<<130, 6, 0, 1>>)
EmptyTopicChunk == Vec(<<48, 2, 0, 0>>)

\* a PUBREC for packet identifier 1
PubrecChunk == Vec(<<80, 2, 0, 1>>)

DecodeErrorChunks ==
  {MalformedLengthChunk, TruncatedPublishChunk, ReservedZeroChunk,
   ReservedFifteenChunk}

AnyClientChunks ==
  ClientChunks \cup DecodeErrorChunks
    \cup {TwoPacketChunk, PartialPacketChunk, EmptyTopicChunk, PubrecChunk}

\* CONNACK and PINGRESP in one chunk
AnyBrokerChunks == BrokerChunks \cup {Vec(<<32, 2, 0, 0, 208, 0>>)}

NextChunks ==
  \/ \E failAt \in StartFailures : Start(failAt)
  \/ \E failAt \in StartFailures : StartTLS(failAt)
  \/ \E loaded \in BOOLEAN : SetTLSCertificate(loaded)
  \/ SetPacketCallback
  \/ Accept
  \/ AcceptTLS
  \/ \E p \in 1..Len(pairs) : PlainClientRead(p, AnyClientChunks)
  \/ \E p \in 1..Len(pairs) : PlainBrokerRead(p, AnyBrokerChunks)
  \/ \E p \in 1..Len(pairs) : TLSHandshake(p)
  \/ \E p \in 1..Len(pairs) : TLSConnect(p)
  \/ \E p \in 1..Len(pairs) : TLSClientRead(p, AnyClientChunks)
  \/ \E p \in 1..Len(pairs) : TLSBrokerRead(p, AnyBrokerChunks)
  \/ \E p \in 1..Len(pairs) : BrokerWriteDone(p)
  \/ \E p \in 1..Len(pairs) : ClientWriteDone(p)

SpecChunks == Init /\ [][NextChunks]_vars

(***************************************************************************)
(* SpecApp: the handler inside the Application of main.cpp.  The UI thread *)
(* calls start, stop and replayPacket from renderMainWindow; a second      *)
(* thread runs ioc_.run().  A call is split where the other thread can run *)
(* in between.                                                             *)
(***************************************************************************)
\* the Application as constructed: the packet callback is set before the I/O
\* thread starts
InitApp ==
  /\ codec = CodecIdle
  /\ storedPackets_ = <<>>
  /\ nStored = 0
  /\ running_ = FALSE
  /\ tlsEnabled_ = FALSE
  /\ acceptorOpen = FALSE
  /\ acceptOps = 0
  /\ tlsAcceptorOpen = FALSE
  /\ tlsAcceptOps = 0
  /\ connections_ = <<>>
  /\ tlsConnections_ = <<>>
  /\ pairs = <<>>
  /\ ioRunning = TRUE
  /\ nReads = 0
  /\ nCalls = 0
  /\ lastCall = [op |-> "none"]
  /\ packetCallback_ = TRUE
  /\ connectionCallback_ = FALSE
  /\ storedAtSet = 0
  /\ nCallbacks = 0
  /\ lastCallback = [direction |-> "none", type |-> "none"]
  /\ captured = <<>>
  /\ certLoaded = FALSE
  /\ aborted = FALSE
  /\ app = AppIdle

\* the rows the packet list keeps
MaxRows == 1000

\* the packet callback of the Application: push_back, then erase of the first
\* row beyond MaxRows.  raw is not a member of PacketInfo: it names the chunk
\* the row was made for.
addRow(rows, label, raw) ==
  LET pushed == Append(rows, [type |-> label, raw |-> raw])
  IN  IF Len(pushed) > MaxRows THEN Tail(pushed) ELSE pushed

\* "Start Intercepting", shown while interception is off: start() on the UI
\* thread
AppStart(failAt) == app.uiPc = "idle" /\ ~running_ /\ Start(failAt)

\* the accept completion on the I/O thread
AppAccept == app.ioPc = "idle" /\ Accept

\* a client read completion of plain pair p as far as the push_back of
\* storePacket
AppReadPush(p, data) ==
  /\ ioRunning
  /\ app.ioPc = "idle"
  /\ events < MaxEvents
  /\ pairs[p].kind = "plain"
  /\ pairs[p].creadP > 0
  /\ storedPackets_' = Append(storedPackets_, fromRawData(data))
  /\ nStored' = nStored + 1
  /\ nReads' = nReads + 1
  /\ pairs' = [pairs EXCEPT ![p] = takeClientRead(@, TRUE)]
  /\ app' = [app EXCEPT !.ioPc = "pushed", !.ioPair = p, !.ioChunk = data]
  /\ UNCHANGED <<codecVars, aborted, sinkVars, setVars, listenVars, connections_,
                 tlsConnections_, callVars, ioRunning>>

\* the size test and erase of storePacket
AppReadErase ==
  /\ app.ioPc = "pushed"
  /\ storedPackets_' = IF Len(storedPackets_) > MaxStoredPackets
                       THEN Tail(storedPackets_) ELSE storedPackets_
  /\ app' = [app EXCEPT !.ioPc = "stored"]
  /\ UNCHANGED <<codecVars, aborted, nStored, sinkVars, setVars, listenVars,
                 connections_, tlsConnections_, callVars, ioRunning, pairs, nReads>>

\* the rest of the read completion: the packet callback, which takes
\* packetsMutex (held by the UI thread around replayPacket), then the connect
\* on CONNECT, the forward and the next read
AppReadDeliver(connectOk) ==
  /\ app.ioPc = "stored"
  /\ app.uiPc # "replayChecked"
  /\ LET p == app.ioPair
         data == app.ioChunk
         args == callbackArgs("plain", "ClientToBroker", data)
     IN  /\ nCallbacks' = nCallbacks + 1
         /\ lastCallback' = args
         /\ captured' = Append(captured, [pair |-> p, direction |-> "ClientToBroker",
                                          sink |-> args])
         /\ app' = [app EXCEPT !.ioPc = "idle",
                               !.capturedPackets = addRow(@, args.type, data)]
         /\ pairs' = [pairs EXCEPT ![p] = plainClientData(@, data, connectOk)]
  /\ UNCHANGED <<codecVars, aborted, storeVars, setVars, listenVars, connections_,
                 tlsConnections_, callVars, ioRunning, nReads>>

\* a click on row i of the packet list
AppSelect(i) ==
  /\ app.uiPc = "idle"
  /\ app' = [app EXCEPT !.selected_packet = i]
  /\ UNCHANGED <<codecVars, aborted, storeVars, sinkVars, setVars, listenVars,
                 connections_, tlsConnections_, callVars, ioRunning, pairs, nReads>>

\* "Clear Packets"
AppClearPackets ==
  /\ app.uiPc = "idle"
  /\ app' = [app EXCEPT !.capturedPackets = <<>>]
  /\ UNCHANGED <<codecVars, aborted, storeVars, sinkVars, setVars, listenVars,
                 connections_, tlsConnections_, callVars, ioRunning, pairs, nReads>>

\* "Replay Original Packet" as far as the two tests of replayPacket; the
\* button exists while selected_packet is a row of the list
AppReplayCheck ==
  /\ app.uiPc = "idle"
  /\ events < MaxEvents
  /\ ~aborted
  /\ app.selected_packet >= 0
  /\ app.selected_packet < Len(app.capturedPackets)
  /\ LET packetIndex == app.selected_packet
         returns == \/ packetIndex >= Len(storedPackets_)
                    \/ connections_ = <<>>
     IN  /\ app' = [app EXCEPT !.uiPc = IF returns THEN "idle" ELSE "replayChecked"]
         /\ lastCall' = [op |-> "replay", index |-> packetIndex,
                         report |-> IF returns THEN "diagnostic" ELSE "success"]
  /\ nCalls' = nCalls + 1
  /\ UNCHANGED <<codecVars, aborted, storeVars, sinkVars, setVars, listenVars,
                 connections_, tlsConnections_, ioRunning, pairs, nReads>>

\* the element access of replayPacket and its sendToClient.  While the I/O
\* thread is inside storePacket the access is a data race: it yields some
\* element, or the process aborts.
AppReplayRead ==
  /\ app.uiPc = "replayChecked"
  /\ \/ \E k \in 1..Len(storedPackets_) :
          /\ k = app.selected_packet + 1 \/ app.ioPc = "pushed"
          /\ pairs' = [pairs EXCEPT ![connections_[1]] =
                         sendToClient(@, "replay", toRawData(storedPackets_[k]))]
          /\ app' = [app EXCEPT !.uiPc = "idle"]
          /\ UNCHANGED <<aborted, ioRunning>>
     \/ /\ app.ioPc = "pushed"
        /\ aborted' = TRUE
        /\ ioRunning' = FALSE
        /\ app' = [app EXCEPT !.uiPc = "idle"]
        /\ UNCHANGED pairs
  /\ UNCHANGED <<codecVars, storeVars, sinkVars, setVars, listenVars, connections_,
                 tlsConnections_, callVars, nReads>>

\* "Stop Intercepting": stop() as far as the loop over connections_
AppStopBegin ==
  /\ app.uiPc = "idle"
  /\ events < MaxEvents
  /\ ~aborted
  /\ running_
  /\ running_' = FALSE
  /\ acceptorOpen' = FALSE
  /\ app' = [app EXCEPT !.uiPc = "stopIterating", !.connectionsSeen = connections_]
  /\ nCalls' = nCalls + 1
  /\ lastCall' = [op |-> "stop"]
  /\ UNCHANGED <<codecVars, aborted, storeVars, sinkVars, setVars, tlsEnabled_,
                 acceptOps, tlsAcceptorOpen, tlsAcceptOps, connections_,
                 tlsConnections_, ioRunning, pairs, nReads>>

\* the loop of stop() and connections_.clear().  A push_back by the I/O
\* thread during the loop is a data race: the loop stops the pairs it saw and
\* the clear drops the new one, or the process aborts.
AppStopEnd ==
  /\ app.uiPc = "stopIterating"
  /\ \/ /\ pairs' = [i \in 1..Len(pairs) |->
                       IF i \in Registered(app.connectionsSeen)
                       THEN stopPlain(pairs[i]) ELSE pairs[i]]
        /\ connections_' = <<>>
        /\ UNCHANGED <<aborted, ioRunning>>
     \/ /\ connections_ # app.connectionsSeen
        /\ aborted' = TRUE
        /\ ioRunning' = FALSE
        /\ UNCHANGED <<pairs, connections_>>
  /\ app' = [app EXCEPT !.uiPc = "idle", !.connectionsSeen = <<>>]
  /\ UNCHANGED <<codecVars, storeVars, sinkVars, setVars, listenVars,
                 tlsConnections_, callVars, nReads>>

NextApp ==
  \/ \E failAt \in StartFailures : AppStart(failAt)
  \/ AppAccept
  \/ \E p \in 1..Len(pairs), data \in ClientChunks : AppReadPush(p, data)
  \/ AppReadErase
  \/ \E connectOk \in BOOLEAN : AppReadDeliver(connectOk)
  \/ \E i \in 0..(Len(app.capturedPackets) - 1) : AppSelect(i)
  \/ AppClearPackets
  \/ AppReplayCheck
  \/ AppReplayRead
  \/ AppStopBegin
  \/ AppStopEnd

SpecApp == InitApp /\ [][NextApp]_vars

(***************************************************************************)
(* Properties of the capture store (SpecStore)                             *)
(***************************************************************************)
\* C5: the capture store never holds more than 1000 packets, however many
\* storePacket calls were made.
CaptureBound == Len(storedPackets_) <= MaxStoredPackets

\* C5 witness: more than 1000 stores were made and the store is full.
CaptureBoundReached ==
  nStored > MaxStoredPackets /\ Len(storedPackets_) = MaxStoredPackets

\* C6: after K > 1000 stores the store holds exactly the last 1000 packets
\* stored, oldest first (the k-th store stored the packet of StoreChunk(k-1)).
FifoEviction ==
  nStored > MaxStoredPackets =>
    storedPackets_ =
      [i \in 1..MaxStoredPackets |->
         fromRawData(StoreChunk(nStored - MaxStoredPackets + i - 1))]

\* C6 witness: 1001 distinct PUBLISHes were fed; the first one (payload 0) is
\* gone, the second is at the front and the last one (payload 1000) at the tail.
FifoEvictionReached ==
  /\ nStored = MaxStoredPackets + 1
  /\ storedPackets_[1].payload = Vec(<<0, 1>>)
  /\ storedPackets_[Len(storedPackets_)].payload = Vec(<<3, 232>>)

(***************************************************************************)
(* Properties of the codec (SpecCodec)                                     *)
(***************************************************************************)
\* the number of bytes of the MQTT 3.1.1 variable-length form of n
NumLenBytes(n) ==
  IF n < 128 THEN 1 ELSE IF n < 16384 THEN 2 ELSE IF n < 2097152 THEN 3
  ELSE IF n < 268435456 THEN 4 ELSE 5

\* the minimal variable-length form of n, digit by digit (least significant
\* first, continuation bit on all but the last)
MinimalLength(n) ==
  Vec([i \in 1..NumLenBytes(n) |->
         ((n \div (128 ^ (i - 1))) % 128)
           + (IF i < NumLenBytes(n) THEN 128 ELSE 0)])

\* the frame the wire format prescribes for a qos-0 PUBLISH of (topic, payload)
ExpectedFrame(topic, payload) ==
  LET n == 2 + size(topic) + size(payload)
      lenField == Vec(<<(size(topic) \div 256) % 256, size(topic) % 256>>)
  IN  insert(insert(insert(insert(Vec(<<48>>), MinimalLength(n)), lenField),
                    topic), payload)

\* C7: decoding the frame injectPacket builds for a topic of at most 65535
\* bytes and a payload whose Remaining Length is expressible gives back
\* type PUBLISH, the topic and the payload.
CodecRoundTrip ==
  (/\ codec.pc = "decoded"
   /\ size(codec.topic) <= 65535
   /\ 2 + size(codec.topic) + size(codec.payload) <= 268435455)
  => /\ codec.packet.type = PUBLISH
     /\ codec.packet.topic = codec.topic
     /\ codec.packet.payload = codec.payload

\* C8: for n in [0, 268435455] the encoder emits the minimal 1-to-4 byte form,
\* the decoder loop accepts it and recovers n, and the decoder calls a length
\* malformed only after consuming more than four length bytes.
RemainingLengthRoundTrip ==
  (codec.pc = "length" /\ codec.n <= 268435455)
  => /\ codec.lenBytes = MinimalLength(codec.n)
     /\ ~codec.lenDecoded.malformed
     /\ codec.lenDecoded.remainingLength = codec.n
     /\ (codec.lenDecoded.malformed => codec.lenDecoded.consumed > 4)

\* C9: for every topic and payload the frame injectPacket builds is 0x30, the
\* variable-length form of 2 + len(T) + len(P), len(T) in two big-endian
\* bytes, T, P.
InjectFrameLayout ==
  codec.pc = "encoded" => codec.frame = ExpectedFrame(codec.topic, codec.payload)

(***************************************************************************)
(* Properties of the connection pairs (Spec)                               *)
(***************************************************************************)
\* the bytes of a sequence of chunks, one after the other
RECURSIVE Concat(_)
Concat(chunks) ==
  IF chunks = <<>> THEN EmptyVec ELSE insert(chunks[1], Concat(Tail(chunks)))

\* the entries of a write queue or wire log that the relay loops made
relayOnly(log) == SelectSeq(log, LAMBDA w : w.src = "relay")

\* the chunks of a sequence of write records
dataOf(log) == [i \in 1..Len(log) |-> log[i].data]

\* some chunk of the sequence is a CONNECT by its first byte
HasConnect(chunks) == \E i \in 1..Len(chunks) : packetType(chunks[i]) = CONNECT

\* nothing has happened on the broker side of pair c
BrokerIdle(c) ==
  /\ c.attempts = 0
  /\ ~c.brokerConnected_
  /\ ~c.brokerOpen
  /\ c.bconn = 0
  /\ c.breadP + c.breadF = 0
  /\ c.brokerIn = <<>>

\* C1: until a pair closes, the bytes the relay wrote to the broker socket,
\* followed by those of its forwards still in flight, are exactly the bytes
\* read from the client socket, unaltered; likewise broker to client.
ByteExactForwarding ==
  \A p \in 1..Len(pairs) :
    ~pairs[p].stopped =>
      /\ Concat(dataOf(relayOnly(pairs[p].brokerOut \o pairs[p].toBroker)))
           = Concat(pairs[p].clientIn)
      /\ Concat(dataOf(relayOnly(pairs[p].clientOut \o pairs[p].toClient)))
           = Concat(pairs[p].brokerIn)
      /\ \A i \in 1..Len(pairs[p].brokerOut) : pairs[p].brokerOut[i].intact
      /\ \A i \in 1..Len(pairs[p].clientOut) : pairs[p].clientOut[i].intact

\* C2: over the lifetime of a pair at most one broker connect attempt is
\* started, and once a CONNECT chunk has been read exactly one was started.
ConnectTriggerOnce ==
  \A p \in 1..Len(pairs) :
    /\ pairs[p].attempts <= 1
    /\ HasConnect(pairs[p].clientIn) => pairs[p].attempts = 1

\* C3 as stated: in every pair, plain or TLS, the broker side is idle until a
\* CONNECT chunk has been read from the client.
BrokerIdleUntilConnect ==
  \A p \in 1..Len(pairs) : ~HasConnect(pairs[p].clientIn) => BrokerIdle(pairs[p])

\* C3 as amended: in a plain pair the broker side is idle until a CONNECT
\* chunk has been read from the client; in a TLS pair it is idle until the
\* TLS handshake with the client has succeeded.
BrokerIdleUntilTrigger ==
  \A p \in 1..Len(pairs) :
    /\ (pairs[p].kind = "plain" /\ ~HasConnect(pairs[p].clientIn))
         => BrokerIdle(pairs[p])
    /\ (pairs[p].kind = "tls" /\ ~pairs[p].handshaken) => BrokerIdle(pairs[p])

\* C3 witness: a plain pair has read a chunk that is no CONNECT and keeps
\* reading, while a TLS pair is still in its handshake.
BrokerIdleWitness ==
  /\ \E p \in 1..Len(pairs) :
       /\ pairs[p].kind = "plain"
       /\ pairs[p].clientIn = <<PublishChunk>>
       /\ pairs[p].creadP = 1
  /\ \E p \in 1..Len(pairs) : pairs[p].kind = "tls" /\ pairs[p].hs = 1

\* C4: once stop() has closed a pair, both sockets are closed, both flags are
\* false, and no write of an inject or replay is outstanding on a live socket.
TeardownSymmetry ==
  \A p \in 1..Len(pairs) :
    pairs[p].stopped =>
      /\ ~pairs[p].connected_ /\ ~pairs[p].brokerConnected_
      /\ ~pairs[p].clientOpen /\ ~pairs[p].brokerOpen
      /\ \A i \in 1..Len(pairs[p].toBroker) :
           pairs[p].toBroker[i].src = "relay" \/ ~pairs[p].toBroker[i].live
      /\ \A i \in 1..Len(pairs[p].toClient) :
           pairs[p].toClient[i].src = "relay" \/ ~pairs[p].toClient[i].live

\* the first pair of ids whose target socket is connected (0: none)
firstActive(ids, toClient) ==
  LET act == SelectSeq(ids, LAMBDA p : IF toClient THEN pairs[p].connected_
                                       ELSE pairs[p].brokerConnected_)
  IN  IF act = <<>> THEN 0 ELSE act[1]

\* C10: an injectPacket call hands its frame to the first active TLS pair if
\* there is one, else to the first active plain pair, and to no other pair.
InjectRouting ==
  [][(nCalls' = nCalls + 1 /\ lastCall'.op = "inject") =>
       LET toClient == lastCall'.toClient
           tlsFirst == firstActive(tlsConnections_, toClient)
           target == IF tlsFirst # 0 THEN tlsFirst
                     ELSE firstActive(connections_, toClient)
           w == [src |-> "inject", data |-> injectFrame(InjectTopic, InjectPayload),
                 live |-> TRUE]
       IN  target # 0 =>
             /\ IF toClient
                THEN pairs'[target].toClient = Append(pairs[target].toClient, w)
                ELSE pairs'[target].toBroker = Append(pairs[target].toBroker, w)
             /\ \A p \in 1..Len(pairs) : p # target => pairs'[p] = pairs[p]]_vars

(***************************************************************************)
(* Properties of the control surface (Spec)                                *)
(***************************************************************************)
\* the step is a call of MQTTHandler::injectPacket / replayPacket / stop
InjectStep == nCalls' = nCalls + 1 /\ lastCall'.op = "inject"
ReplayStep == nCalls' = nCalls + 1 /\ lastCall'.op = "replay"
StopStep == nCalls' = nCalls + 1 /\ lastCall'.op = "stop"

\* the target socket of pair c is connected
targetConnected(c, toClient) ==
  IF toClient THEN c.connected_ ELSE c.brokerConnected_

\* C11: an injectPacket call made when no pair is registered, or when the
\* target socket of the pair it chose is not connected, changes no pair and
\* no capture, and reports a diagnostic rather than a success message.
InjectUndeliverable ==
  [][(/\ InjectStep
      /\ \/ injectTarget = 0
         \/ ~targetConnected(pairs[injectTarget], lastCall'.toClient))
       => /\ pairs' = pairs
          /\ storedPackets_' = storedPackets_
          /\ lastCall'.report = "diagnostic"]_vars

\* C12: a replayPacket(i) call with 0 <= i < len(store), made while some pair
\* has a connected client socket, hands exactly the raw bytes of the i-th
\* stored packet to a write on a client socket.
ReplayDelivers ==
  [][(/\ ReplayStep
      /\ lastCall'.index >= 0 /\ lastCall'.index < Len(storedPackets_)
      /\ \E p \in 1..Len(pairs) : pairs[p].connected_ /\ pairs[p].clientOpen)
       => \E p \in 1..Len(pairs) :
            /\ pairs[p].connected_ /\ pairs[p].clientOpen
            /\ pairs'[p].toClient =
                 Append(pairs[p].toClient,
                        [src |-> "replay",
                         data |-> storedPackets_[lastCall'.index + 1].data,
                         live |-> TRUE])]_vars

\* C13: a replayPacket(i) call with i < 0 or i >= len(store) starts no write
\* on any socket and leaves every pair and the capture store as they were.
ReplayOutOfRange ==
  [][(/\ ReplayStep
      /\ \/ lastCall'.index < 0
         \/ lastCall'.index >= Len(storedPackets_))
       => /\ pairs' = pairs
          /\ storedPackets_' = storedPackets_
          /\ nStored' = nStored]_vars

\* C13 witness: replayPacket was just called with the index one past the last
\* capture, while the first registered plain pair has its client connected.
ReplayOutOfRangeReached ==
  /\ lastCall.op = "replay"
  /\ lastCall.report = "diagnostic"
  /\ Len(storedPackets_) >= 1
  /\ lastCall.index = Len(storedPackets_)
  /\ connections_ # <<>>
  /\ pairs[connections_[1]].connected_
  /\ pairs[connections_[1]].toClient = <<>>

\* C14: an injectPacket or replayPacket call leaves the capture store and the
\* packet callback untouched; the store and the callback sequence change only
\* in a step in which a relay loop has read a chunk.
CaptureOnlyOnRead ==
  [][/\ (InjectStep \/ ReplayStep)
          => /\ storedPackets_' = storedPackets_ /\ nStored' = nStored
             /\ nCallbacks' = nCallbacks /\ lastCallback' = lastCallback
     /\ (\/ storedPackets_' # storedPackets_ \/ nStored' # nStored
         \/ nCallbacks' # nCallbacks \/ lastCallback' # lastCallback)
          => nReads' = nReads + 1]_vars

\* C14 witness: with the packet callback set and a capture made, an inject
\* was delivered to a pair.
CaptureOnlyOnReadReached ==
  /\ lastCall.op = "inject"
  /\ packetCallback_
  /\ nCallbacks = 1 /\ Len(storedPackets_) = 1
  /\ \E p \in 1..Len(pairs) :
       \E i \in 1..Len(pairs[p].toBroker) : pairs[p].toBroker[i].src = "inject"

(***************************************************************************)
(* Properties of the listeners (Spec)                                      *)
(***************************************************************************)
\* both sockets of pair c are closed and both of its flags are false
PairDown(c) ==
  ~c.connected_ /\ ~c.brokerConnected_ /\ ~c.clientOpen /\ ~c.brokerOpen

\* C15: a stop() call on a handler whose plain and TLS listeners are both
\* open leaves both acceptors closed, every pair that was registered in
\* either vector stopped, and both registration vectors empty.
StopClosesEverything ==
  [][(StopStep /\ acceptorOpen /\ tlsAcceptorOpen)
       => /\ ~acceptorOpen' /\ ~tlsAcceptorOpen'
          /\ connections_' = <<>> /\ tlsConnections_' = <<>>
          /\ \A p \in Registered(connections_) \cup Registered(tlsConnections_) :
               PairDown(pairs'[p])]_vars

\* C16: from a stop() call until the next control-surface call, no step
\* constructs, registers or starts a connection pair.
NoPairAfterStop ==
  [][(lastCall.op = "stop" /\ lastCall' = lastCall /\ nCalls' = nCalls)
       => /\ Len(pairs') = Len(pairs)
          /\ connections_' = connections_
          /\ tlsConnections_' = tlsConnections_]_vars

\* C17: on a handler whose only call so far is startTLS(), an accept
\* completion that registered a TLS pair leaves a new accept armed on the
\* TLS acceptor.
TLSListenerIndependent ==
  [][(/\ nCalls = 1 /\ lastCall.op = "startTLS"
      /\ tlsConnections_' # tlsConnections_)
       => tlsAcceptOps' > 0]_vars

\* C18: while running_ is true no step ends an accept loop: every accept
\* completion, of either listener, leaves as many accepts armed as before.
AcceptLoopNeverEnds ==
  [][running_ => (acceptOps' >= acceptOps /\ tlsAcceptOps' >= tlsAcceptOps)]_vars

\* C19: when the connection callback is set, every pair an accept completion
\* constructs, plain or TLS, has had the callback invoked for it exactly once
\* by the end of that completion, and never again.
ConnectionCallbackOnce ==
  [][/\ (Len(pairs') = Len(pairs) + 1 /\ connectionCallback_)
          => pairs'[Len(pairs')].announced = 1
     /\ \A p \in 1..Len(pairs) : pairs'[p].announced = pairs[p].announced]_vars

(***************************************************************************)
(* Properties of the packet callback (Spec)                                *)
(***************************************************************************)
\* C20: once a packet callback is set, the callback has been invoked once for
\* every store made since, the last invocation being for the chunk stored
\* last; before it is set, it has not been invoked.
CallbackPerStore ==
  /\ ~packetCallback_ => nCallbacks = 0
  /\ packetCallback_ => nCallbacks = nStored - storedAtSet
  /\ nCallbacks > 0 =>
       LET last == storedPackets_[Len(storedPackets_)]
       IN  lastCallback.type \in {plainLabel(last.type), tlsLabel(last.type)}

\* C20 witness: the callback was set after a first chunk was stored, and a
\* second chunk, a CONNACK from the broker, was stored and reported since.
CallbackPerStoreReached ==
  /\ packetCallback_
  /\ storedAtSet = 1
  /\ nCallbacks = 1
  /\ lastCallback = [direction |-> "BrokerToClient", type |-> "CONNACK"]

\* the indices of the captures that pair p made in the given direction
capturesOf(p, direction) ==
  SelectSeq([i \in 1..Len(captured) |-> i],
            LAMBDA i : captured[i].pair = p /\ captured[i].direction = direction)

\* the raw bytes of the stored packets at the given indices, in order
rawAt(indices) == [k \in 1..Len(indices) |-> storedPackets_[indices[k]].data]

\* C21: before eviction, for every pair and direction the captures that pair
\* made in that direction are, in store order, exactly the chunks it read from
\* that socket in wire order, and every capture made while the callback was
\* set was reported to it with that direction.
CaptureOrderIsWireOrder ==
  /\ Len(captured) = Len(storedPackets_)
  /\ \A p \in 1..Len(pairs) :
       /\ rawAt(capturesOf(p, "ClientToBroker")) = pairs[p].clientIn
       /\ rawAt(capturesOf(p, "BrokerToClient")) = pairs[p].brokerIn
  /\ \A i \in 1..Len(captured) :
       /\ captured[i].pair \in 1..Len(pairs)
       /\ captured[i].sink # NoCallback =>
            /\ captured[i].sink.direction = captured[i].direction
            /\ captured[i].sink.type \in {plainLabel(storedPackets_[i].type),
                                         tlsLabel(storedPackets_[i].type)}
  /\ nCallbacks = Len(SelectSeq(captured, LAMBDA e : e.sink # NoCallback))

\* C21 witness: one pair has read CONNECT, then PUBLISH from its client with
\* a CONNACK from the broker read in between, and the store holds the three.
CaptureOrderReached ==
  /\ Len(storedPackets_) = 3
  /\ storedPackets_[2].type = CONNACK
  /\ \E p \in 1..Len(pairs) :
       /\ pairs[p].clientIn = <<ConnectChunk, PublishChunk>>
       /\ pairs[p].brokerIn = <<ConnackChunk>>

(***************************************************************************)
(* Properties of error handling in the pairs (Spec)                        *)
(***************************************************************************)
\* in this step a read, write, handshake or broker connect of pair a failed
FailureStep(a) ==
  \/ pairs'[a].erred /\ ~pairs[a].erred
  \/ pairs'[a].connectFailed /\ ~pairs[a].connectFailed
  \/ pairs[a].hs = 1 /\ pairs'[a].hs = 0 /\ ~pairs'[a].handshaken

\* C22: a step in which an operation of pair a fails leaves every other pair
\* b as it was, and leaves the I/O context running.
ErrorsAreLocal ==
  [][\A a, b \in 1..Len(pairs) :
       (a # b /\ Len(pairs') = Len(pairs) /\ FailureStep(a))
         => (pairs'[b] = pairs[b] /\ ioRunning' = ioRunning)]_vars

\* C23: a pair whose broker resolve or connect has failed is torn down: its
\* client socket is closed and both of its flags are false.
ConnectFailureTearsDown ==
  \A p \in 1..Len(pairs) :
    pairs[p].connectFailed =>
      /\ ~pairs[p].connected_ /\ ~pairs[p].brokerConnected_
      /\ ~pairs[p].clientOpen

\* no operation of pair c is outstanding: every completion handler has run
Quiescent(c) ==
  /\ c.hs = 0 /\ c.bconn = 0
  /\ c.creadP + c.creadF + c.breadP + c.breadF = 0
  /\ c.toBroker = <<>> /\ c.toClient = <<>>

\* C24: a pair on which a read or write has failed is Closed, both sockets
\* closed and both flags false, once all its pending completions have run.
ErrorClosesPair ==
  \A p \in 1..Len(pairs) :
    (pairs[p].erred /\ Quiescent(pairs[p])) => PairDown(pairs[p])

\* C26: a TLS pair whose handshake has not succeeded has no read issued on
\* either socket, has read nothing and has made no capture; and one whose
\* handshake has failed is Closed and never started a broker connect.
NoReadBeforeHandshake ==
  \A p \in 1..Len(pairs) :
    (pairs[p].kind = "tls" /\ ~pairs[p].handshaken) =>
      /\ pairs[p].creadP + pairs[p].creadF = 0
      /\ pairs[p].breadP + pairs[p].breadF = 0
      /\ pairs[p].clientIn = <<>> /\ pairs[p].brokerIn = <<>>
      /\ \A i \in 1..Len(captured) : captured[i].pair # p
      /\ pairs[p].attempts = 0 /\ pairs[p].bconn = 0
      /\ pairs[p].hs = 0 => (pairs[p].stopped /\ PairDown(pairs[p]))

\* C26 witness: the handshake of one TLS pair has failed and the pair is
\* Closed, while another TLS pair is still in its handshake.
NoReadBeforeHandshakeReached ==
  /\ \E p \in 1..Len(pairs) :
       /\ pairs[p].kind = "tls" /\ ~pairs[p].handshaken
       /\ pairs[p].hs = 0 /\ pairs[p].stopped
  /\ \E p \in 1..Len(pairs) : pairs[p].kind = "tls" /\ pairs[p].hs = 1


\* a control-surface call of the given name is the step
CallStep(op) == nCalls' = nCalls + 1 /\ lastCall'.op = op

\* C27: a startTLS call made while no setTLSCertificate call has succeeded
\* fails and opens no TLS listener: the TLS acceptor, the armed accepts and
\* tlsEnabled_ are as before the call.
StartTLSNeedsCertificate ==
  [][(CallStep("startTLS") /\ ~certLoaded)
       => /\ lastCall'.report = "failed"
          /\ UNCHANGED <<tlsAcceptorOpen, tlsAcceptOps, tlsEnabled_>>]_vars

\* C28: a start call that fails on a handler whose acceptor is closed leaves
\* running_ false, arms no accept and leaves the acceptor closed.
StartFailureLeavesHandler ==
  [][(CallStep("start") /\ ~acceptorOpen /\ lastCall'.report = "failed")
       => /\ ~running_'
          /\ acceptOps' = acceptOps
          /\ ~acceptorOpen']_vars


\* pair p took a chunk from its client socket in this step
clientChunkRead(p) ==
  /\ Len(pairs') = Len(pairs)
  /\ Len(pairs'[p].clientIn) = Len(pairs[p].clientIn) + 1

\* C25: whatever a chunk read from the client holds, handling it leaves the
\* process and the pair running; unless it is the CONNECT trigger it leaves
\* both flags as they were; and a pair whose broker side is connected hands
\* exactly the chunk's bytes to the broker socket.
DecodeErrorsNeverKill ==
  [][\A p \in 1..Len(pairs) :
       clientChunkRead(p)
         => LET c == pairs'[p]
                data == c.clientIn[Len(c.clientIn)]
            IN  /\ ~aborted'
                /\ packetType(data) # CONNECT
                     => /\ c.connected_ = pairs[p].connected_
                        /\ c.brokerConnected_ = pairs[p].brokerConnected_
                        /\ c.stopped = pairs[p].stopped
                /\ c.brokerConnected_
                     => c.toBroker =
                          Append(pairs[p].toBroker,
                                 [src |-> "relay", data |-> data,
                                  live |-> c.brokerOpen])]_vars

\* C29: every stored packet has type = raw[0] >> 4 and a raw length of
\* 1 + the number of Remaining Length bytes + the Remaining Length.
StoredPacketFraming ==
  \A i \in 1..Len(storedPackets_) :
    LET packet == storedPackets_[i]
        d == decodeRemainingLength(packet.data, 1, 0, 1)
    IN  /\ packet.type = (at(packet.data, 0) \div 16) % 16
        /\ ~d.malformed
        /\ size(packet.data) = d.offset + d.remainingLength


\* C30: fromRawData applied to a PUBLISH buffer with a complete variable
\* header (a topic of at most 65535 bytes, a Remaining Length of at most
\* 268435455, the packet identifier present when qos > 0) returns the topic
\* and, as payload, the bytes after the topic (qos 0) or after the packet
\* identifier (qos > 0).
PublishDecoding ==
  (/\ codec.pc \in {"publish", "publishAborted"}
   /\ size(codec.topic) <= 65535
   /\ size(codec.frame) <= 268435455 + 5)
  => /\ codec.pc = "publish"
     /\ codec.packet.qos = codec.qos
     /\ codec.packet.topic = codec.topic
     /\ codec.packet.payload = codec.payload


\* C31: the record fromRawData returns for a non-empty buffer has dup = bit 3,
\* qos = bits 2..1, retain = bit 0 and type = the high nibble of the first
\* byte, whatever follows that byte; for the empty buffer it is the record as
\* constructed, with no bytes, topic or payload.
HeaderDecoding ==
  codec.pc = "header"
  => IF codec.frame = EmptyVec
     THEN codec.packet = DefaultPacket
     ELSE LET firstByte == at(codec.frame, 0)
          IN  /\ codec.packet.dup = ((firstByte \div 8) % 2 = 1)
              /\ codec.packet.qos = (firstByte \div 2) % 4
              /\ codec.packet.retain = (firstByte % 2 = 1)
              /\ codec.packet.type = firstByte \div 16
              /\ codec.packet.data = codec.frame

\* a PUBLISH buffer with dup, qos 2 and retain set was decoded
HeaderDecodingReached ==
  /\ codec.pc = "header"
  /\ codec.frame = insert(Vec(<<61>>), Vec(<<3, 0, 1, 116>>))
  /\ codec.packet.qos = 2
  /\ codec.packet.dup
  /\ codec.packet.retain


\* the names of the fourteen MQTT control packet types
TypeName(t) ==
  CASE t = 1 -> "CONNECT" [] t = 2 -> "CONNACK" [] t = 3 -> "PUBLISH"
    [] t = 4 -> "PUBACK" [] t = 5 -> "PUBREC" [] t = 6 -> "PUBREL"
    [] t = 7 -> "PUBCOMP" [] t = 8 -> "SUBSCRIBE" [] t = 9 -> "SUBACK"
    [] t = 10 -> "UNSUBSCRIBE" [] t = 11 -> "UNSUBACK" [] t = 12 -> "PINGREQ"
    [] t = 13 -> "PINGRESP" [] t = 14 -> "DISCONNECT"

\* C32: the label the packet callback gets for a chunk whose first-byte type
\* is one of 1..14 is that type's name, from a plain pair and from a TLS pair
\* alike.
TypeLabelIsName ==
  \A i \in 1..Len(captured) :
    (/\ captured[i].sink # NoCallback
     /\ i <= Len(storedPackets_)
     /\ packetType(storedPackets_[i].data) \in 1..14)
    => captured[i].sink.type = TypeName(packetType(storedPackets_[i].data))


\* a write that forwards a chunk read from the other socket is outstanding
relayPending(writes) == \E i \in 1..Len(writes) : writes[i].src = "relay"

\* C33: while a read is outstanding on the client socket no forward of an
\* earlier client chunk is still being written to the broker, and the same
\* for the broker socket and the writes to the client.
FullWriteBeforeRead ==
  \A p \in 1..Len(pairs) :
    /\ pairs[p].creadP + pairs[p].creadF > 0 => ~relayPending(pairs[p].toBroker)
    /\ pairs[p].breadP + pairs[p].breadF > 0 => ~relayPending(pairs[p].toClient)

\* the captures made by pair p
capturesBy(p) == SelectSeq(captured, LAMBDA e : e.pair = p)

\* C34: a step that is not a control call leaves a stopped pair closed: it
\* sets neither flag, opens no socket, issues no read, starts no write and
\* adds no capture of that pair.
ClosedIsTerminal ==
  [][\A p \in 1..Len(pairs) :
       (pairs[p].stopped /\ nCalls' = nCalls /\ Len(pairs') = Len(pairs))
         => /\ pairs'[p].connected_ => pairs[p].connected_
            /\ pairs'[p].brokerConnected_ => pairs[p].brokerConnected_
            /\ pairs'[p].clientOpen => pairs[p].clientOpen
            /\ pairs'[p].brokerOpen => pairs[p].brokerOpen
            /\ pairs'[p].creadP + pairs'[p].creadF
                 <= pairs[p].creadP + pairs[p].creadF
            /\ pairs'[p].breadP + pairs'[p].breadF
                 <= pairs[p].breadP + pairs[p].breadF
            /\ Len(pairs'[p].toBroker) <= Len(pairs[p].toBroker)
            /\ Len(pairs'[p].toClient) <= Len(pairs[p].toClient)
            /\ Len(SelectSeq(captured', LAMBDA e : e.pair = p))
                 = Len(capturesBy(p))]_vars


\* C35: between the size test of a replayPacket call on the UI thread and
\* its element access, no storePacket of the I/O thread changes the capture
\* store.
StoreAccessSerialized ==
  [][(app.uiPc = "replayChecked" /\ app'.uiPc = "replayChecked")
       => storedPackets_' = storedPackets_]_vars

\* C36: while the UI thread is inside stop() or replayPacket, which iterate,
\* clear or index connections_, no accept completion changes connections_.
ConnectionsOnIoContext ==
  [][(app.uiPc \in {"stopIterating", "replayChecked"} /\ app'.uiPc = app.uiPc)
       => connections_' = connections_]_vars

\* C39: while no read completion is half done, every row of the packet list
\* was made for the chunk the capture store holds at the same index.
RowsAlignWithStore ==
  app.ioPc = "idle"
  => \A i \in 1..Len(app.capturedPackets) :
       /\ i <= Len(storedPackets_)
       /\ toRawData(storedPackets_[i]) = app.capturedPackets[i].raw


\* C37: every completed write put on the wire the bytes its caller passed.
WriteBufferAlive ==
  \A p \in 1..Len(pairs) :
    /\ \A i \in 1..Len(pairs[p].brokerOut) : pairs[p].brokerOut[i].intact
    /\ \A i \in 1..Len(pairs[p].clientOut) : pairs[p].clientOut[i].intact

\* the writes of a queue that were started on an open socket
liveWrites(writes) == SelectSeq(writes, LAMBDA w : w.live)

\* C38: no socket has two writes outstanding.
OneWritePerSocket ==
  \A p \in 1..Len(pairs) :
    /\ Len(liveWrites(pairs[p].toBroker)) <= 1
    /\ Len(liveWrites(pairs[p].toClient)) <= 1

\* the Remaining Length field that starts at raw[offset], read as the wire
\* format defines it: its value and the offset of the byte after it
RECURSIVE wireLength(_, _, _)
wireLength(raw, offset, multiplier) ==
  LET b == at(raw, offset)
  IN  IF b >= 128
      THEN LET rest == wireLength(raw, offset + 1, multiplier * 128)
           IN  [value |-> (b % 128) * multiplier + rest.value, next |-> rest.next]
      ELSE [value |-> b * multiplier, next |-> offset + 1]

\* C40: in the frame injectPacket builds, for every topic and payload, the
\* Remaining Length is the number of bytes after the length field and the
\* two-byte topic length is the number of topic bytes in the frame.
InjectLengthsAgree ==
  codec.pc = "encoded"
  => LET w == wireLength(codec.frame, 1, 1)
     IN  /\ w.value = size(codec.frame) - w.next
         /\ at(codec.frame, w.next) * 256 + at(codec.frame, w.next + 1)
              = size(codec.topic)

====
